---- MODULE Spec2Model ----
(***************************************************************************)
(* Model of the textbook.town Flask backend:                               *)
(*   src/Flask-backend/api.py              (models, register, auth, add)   *)
(*   src/Flask-backend/search/functions.py (search, auction lifecycle)     *)
(*                                                                         *)
(* Strings are sequences of one-character strings, so that lower(), split  *)
(* and SQL LIKE are computed rather than assumed.  The database is the     *)
(* set of committed rows; rows inserted by a flush but not yet committed   *)
(* live in the inserting request's own state and are invisible to others,  *)
(* while the AUTO_INCREMENT counters are shared and never rolled back.     *)
(***************************************************************************)
EXTENDS Integers, Sequences, FiniteSets, TLC

VARIABLES
    now,            \* wall clock, seconds
    textbooks,      \* committed rows of table "textbooks": id -> row
    auctions,       \* committed rows of table "auctions":  id -> row
    nextTextbookId, \* AUTO_INCREMENT counter of "textbooks"
    nextAuctionId,  \* AUTO_INCREMENT counter of "auctions"
    book,           \* per worker: the add_book request in progress
    users,          \* committed rows of table "users": id -> row
    nextUserId,     \* AUTO_INCREMENT counter of "users"
    reg,            \* per worker: the /user/register request in progress
    tokens          \* auth tokens handed out by /user/login

vars == <<now, textbooks, auctions, nextTextbookId, nextAuctionId, book,
          users, nextUserId, reg, tokens>>

bookVars == <<textbooks, auctions, nextTextbookId, nextAuctionId, book>>
authVars == <<users, nextUserId, reg, tokens>>

----------------------------------------------------------------------------
(* Bounds *)

MaxBooks == 2       \* add_book requests that reach the flush
MaxDay == 3         \* last calendar day the clock reaches in BookSpec
MaxUsers == 2       \* user rows inserted in RegSpec and AuthSpec
MaxTicks == 2       \* clock steps in AuthSpec
MaxTokens == 1      \* tokens handed out in AuthSpec

(* Program constants *)

TOKEN_EXPIRATION == 604800
SecondsPerDay == 86400
MaxUsernameLen == 32
MinUsernameLen == 4
MinPasswordLen == 6
MaxDaysAhead == 60

Workers == {"w1", "w2"}

----------------------------------------------------------------------------
(* Strings *)

Str(n, c) == [i \in 1..n |-> c]

LowerChar(c) ==
    CASE c = "A" -> "a"
      [] c = "B" -> "b"
      [] c = "C" -> "c"
      [] c = "D" -> "d"
      [] OTHER -> c

\* str.lower() / func.lower()
Lower(s) == [i \in 1..Len(s) |-> LowerChar(s[i])]

IsPrefix(p, s) == Len(p) <= Len(s) /\ SubSeq(s, 1, Len(p)) = p

Drop(s, n) == SubSeq(s, n + 1, Len(s))

\* True substring containment: what "title contains keyword" means.
Contains(s, k) == \E i \in 0..(Len(s) - Len(k)) : SubSeq(s, i + 1, i + Len(k)) = k

Delimiter == <<"%", "2", "0">>

\* str.split('%20'): left to right, non-overlapping, always >= 1 piece.
RECURSIVE SplitFrom(_, _)
SplitFrom(s, cur) ==
    IF s = <<>> THEN <<cur>>
    ELSE IF IsPrefix(Delimiter, s)
         THEN <<cur>> \o SplitFrom(Drop(s, Len(Delimiter)), <<>>)
         ELSE SplitFrom(Tail(s), Append(cur, Head(s)))

Split(s) == SplitFrom(s, <<>>)

\* SQL LIKE: '%' matches any run of characters, '_' exactly one character.
RECURSIVE Like(_, _)
Like(s, pat) ==
    IF pat = <<>> THEN s = <<>>
    ELSE IF Head(pat) = "%"
         THEN Like(s, Tail(pat)) \/ (s # <<>> /\ Like(Tail(s), pat))
         ELSE /\ s # <<>>
              /\ (Head(pat) = "_" \/ Head(pat) = Head(s))
              /\ Like(Tail(s), Tail(pat))

\* func.lower(Textbook.title).like("%" + keyword.lower() + "%")
TitleMatches(title, keyword) ==
    Like(Lower(title), <<"%">> \o Lower(keyword) \o <<"%">>)

RECURSIVE SortedIds(_)
SortedIds(S) ==
    IF S = {} THEN <<>>
    ELSE LET m == CHOOSE x \in S : \A y \in S : x <= y
         IN <<m>> \o SortedIds(S \ {m})

InSeq(x, s) == \E i \in 1..Len(s) : s[i] = x

----------------------------------------------------------------------------
(* Clock *)

getCurrentESTDate == now \div SecondsPerDay

validDateString(d, today) == d > today + 1 /\ d <= today + MaxDaysAhead

----------------------------------------------------------------------------
(* Auction lifecycle and search: search/functions.py *)

\* Auction.query.get(textbookID) on a committed row; a missing row is None
\* and the attribute access raises (callers test AuctionMissing first).
AuctionMissing(aucs, textbookID) == textbookID \notin DOMAIN aucs

\* variant: closes the auction already on its closing day
checkAndModifyAuctionIsCurrentGe(aucs, textbookID, today) ==
    IF today >= aucs[textbookID].closingDate
    THEN [aucs EXCEPT ![textbookID].isCurrent = FALSE]
    ELSE aucs

checkAndModifyAuctionIsCurrent(aucs, textbookID, today) ==
    IF today > aucs[textbookID].closingDate
    THEN [aucs EXCEPT ![textbookID].isCurrent = FALSE]
    ELSE aucs

\* one query per keyword, rows in primary-key order, reduced to their ids
MatchingIDs(books, keywords) ==
    [i \in 1..Len(keywords) |->
        SelectSeq(SortedIds(DOMAIN books),
                  LAMBDA t : TitleMatches(books[t].title, keywords[i]))]

AllPresent(tID, matchingIDs) ==
    \A j \in 2..Len(matchingIDs) : InSeq(tID, matchingIDs[j])

\* the loop over matchingIDs[0]: lifecycle check, then the AND across lists
RECURSIVE SearchLoop(_, _, _, _, _)
SearchLoop(ids, matchingIDs, aucs, results, today) ==
    IF ids = <<>> THEN [auctions |-> aucs, results |-> results, status |-> "ok"]
    ELSE IF AuctionMissing(aucs, Head(ids))
         THEN [auctions |-> aucs, results |-> <<>>, status |-> "error"]
         ELSE SearchLoop(Tail(ids), matchingIDs,
                         checkAndModifyAuctionIsCurrent(aucs, Head(ids), today),
                         IF AllPresent(Head(ids), matchingIDs)
                         THEN Append(results, Head(ids)) ELSE results,
                         today)

search_by_title(searchString, books, aucs, today) ==
    LET keywords == Split(searchString)
        matchingIDs == MatchingIDs(books, keywords)
    IN  IF Len(matchingIDs) = 0
        THEN [auctions |-> aucs, results |-> <<>>, status |-> "ok", first |-> <<>>]
        ELSE LET r == SearchLoop(matchingIDs[1], matchingIDs, aucs, <<>>, today)
             IN [auctions |-> r.auctions,
                 status |-> r.status,
                 first |-> matchingIDs[1],
                 results |-> SelectSeq(r.results,
                                LAMBDA t : r.auctions[t].isCurrent)]

----------------------------------------------------------------------------
(* POST /book/add: api.py add_book *)

Titles == { <<"A", "b">>, <<"b", "2">> }

\* form['title'] values tried, the blank one included
TitleInputs == Titles \cup { <<>> }

\* form['sellby'] values tried, as calendar days
DateInputs(today) == { today + 1, today + 2, today + 3 }

IdleBook == [pc |-> "idle", title |-> <<>>, closingDate |-> 0, aid |-> 0, tid |-> 0]

BooksStarted == (nextAuctionId - 1)
                + Cardinality({w \in Workers : book[w].pc = "flushAuction"})

\* lines 257-271: a blank field or a bad closing date ends the request with
\* a failure response and nothing written
FormAccepted(title, d, today) == title # <<>> /\ validDateString(d, today)

\* lines 229-305: validate the form, then build the two rows and add them to
\* the session; a rejected form changes nothing
AddBookBegin(w) ==
    /\ book[w].pc = "idle"
    /\ BooksStarted < MaxBooks
    /\ \E title \in TitleInputs, d \in DateInputs(getCurrentESTDate) :
          book' = [book EXCEPT ![w] =
                      IF FormAccepted(title, d, getCurrentESTDate)
                      THEN [pc |-> "flushAuction", title |-> title,
                            closingDate |-> d, aid |-> 0, tid |-> 0]
                      ELSE IdleBook]
    /\ UNCHANGED <<now, textbooks, auctions, nextTextbookId, nextAuctionId>>
    /\ UNCHANGED authVars

\* line 307, flush: INSERT INTO auctions, the generated id comes back
FlushAuction(w) ==
    /\ book[w].pc = "flushAuction"
    /\ book' = [book EXCEPT ![w].aid = nextAuctionId, ![w].pc = "flushBook"]
    /\ nextAuctionId' = nextAuctionId + 1
    /\ UNCHANGED <<now, textbooks, auctions, nextTextbookId>>
    /\ UNCHANGED authVars

\* line 307, flush: INSERT INTO textbooks, the generated id comes back
FlushBook(w) ==
    /\ book[w].pc = "flushBook"
    /\ book' = [book EXCEPT ![w].tid = nextTextbookId, ![w].pc = "commit"]
    /\ nextTextbookId' = nextTextbookId + 1
    /\ UNCHANGED <<now, textbooks, auctions, nextAuctionId>>
    /\ UNCHANGED authVars

\* variant: the textbook row is patched with its own id
LinkedBookOwnId(b) == [title |-> b.title, auction |-> b.tid]

\* lines 310-311: the foreign keys patched into the two pending rows
LinkedBook(b) == [title |-> b.title, auction |-> b.aid]

LinkedAuction(b) == [textbook |-> b.tid, salePrice |-> 0, isCurrent |-> TRUE,
                     closingDate |-> b.closingDate]

\* lines 310-315: link, commit (both rows become visible together), respond
CommitBook(w) ==
    /\ book[w].pc = "commit"
    /\ textbooks' = (book[w].tid :> LinkedBook(book[w])) @@ textbooks
    /\ auctions' = (book[w].aid :> LinkedAuction(book[w])) @@ auctions
    /\ book' = [book EXCEPT ![w] = IdleBook]
    /\ UNCHANGED <<now, nextTextbookId, nextAuctionId>>
    /\ UNCHANGED authVars

----------------------------------------------------------------------------
(* A search request *)

Queries == { <<"a">>, <<"2">>, <<"B">>, <<"_">>,
             <<"a", "%", "2", "0", "b">>,
             <<"a", "%", "2", "0", "2">> }

\* what a search_by_title(q) call made in the current state does and returns
SearchNow(q) == search_by_title(q, textbooks, auctions, getCurrentESTDate)

\* the only writes of a search are the commits of its lifecycle checks
Search ==
    /\ \E q \in Queries : auctions' = SearchNow(q).auctions
    /\ UNCHANGED <<now, textbooks, nextTextbookId, nextAuctionId, book>>
    /\ UNCHANGED authVars

TickDay ==
    /\ getCurrentESTDate < MaxDay
    /\ now' = now + SecondsPerDay
    /\ UNCHANGED bookVars
    /\ UNCHANGED authVars

----------------------------------------------------------------------------
(* POST /user/register: api.py new_user *)

\* request.json.get(key): a value, or None when the key is absent
Some(s) == [isNone |-> FALSE, s |-> s]
None == [isNone |-> TRUE, s |-> <<>>]

Abcd == <<"a", "b", "c", "d">>
ABcd == <<"A", "B", "c", "d">>
Dcba == <<"d", "c", "b", "a">>
Secret == <<"s", "e", "c", "r", "e", "t">>
Hunter == <<"h", "u", "n", "t", "e", "r">>
Mail == <<"m">>

Body(u, p1, p2, c) == [username |-> u, password |-> p1, passwordCheck |-> p2,
                       contactLink |-> c]

\* JSON bodies tried
RegRequests ==
    { Body(Some(Abcd), Some(Secret), Some(Secret), Some(Mail)),
      Body(Some(ABcd), Some(Hunter), Some(Hunter), Some(Mail)),
      Body(Some(Dcba), Some(Secret), Some(Secret), Some(Mail)),
      Body(None, Some(Secret), Some(Secret), Some(Mail)),
      Body(Some(Abcd), None, Some(Secret), Some(Mail)),
      Body(Some(Abcd), Some(Secret), None, Some(Mail)),
      Body(Some(Abcd), Some(Secret), Some(Secret), None),
      Body(Some(Abcd), Some(Secret), Some(Secret), Some(<<>>)),
      Body(Some(<<"a", "b", "c">>), Some(Secret), Some(Secret), Some(Mail)),
      Body(Some(Str(MaxUsernameLen + 1, "a")), Some(Secret), Some(Secret), Some(Mail)),
      Body(Some(Abcd), Some(Secret), Some(Hunter), Some(Mail)),
      Body(Some(Abcd), Some(<<"p", "w">>), Some(<<"p", "w">>), Some(Mail)) }

\* the bodies among them that pass validation
ValidRequests ==
    { Body(Some(Abcd), Some(Secret), Some(Secret), Some(Mail)),
      Body(Some(ABcd), Some(Hunter), Some(Hunter), Some(Mail)),
      Body(Some(Dcba), Some(Secret), Some(Secret), Some(Mail)) }

\* pwd_context.encrypt / pwd_context.verify
hash_password(password) == <<"$6$">> \o password

PasswordMatches(password, password_hash) == password_hash = hash_password(password)

\* lines 148-171: what the handler answers before it touches the database;
\* "ok" means it goes on to the lookup, "error" that it raised (None.lower())
Validate(body) ==
    IF body.username.isNone THEN "error"
    ELSE LET username == Lower(body.username.s)
         IN IF body.password.isNone \/ body.passwordCheck.isNone
               \/ body.contactLink.isNone THEN "missing_arguments"
            ELSE IF body.contactLink.s = <<>> THEN "missing_arguments"
            ELSE IF Len(username) > MaxUsernameLen THEN "username_too_long"
            ELSE IF Len(username) < MinUsernameLen THEN "username_too_short"
            ELSE IF body.password.s # body.passwordCheck.s
                 THEN "passwords_not_matching"
            ELSE IF Len(body.password.s) < MinPasswordLen THEN "password_too_short"
            ELSE "ok"

\* variant: the name is used as sent, without lower()
RequestUsernameRaw(body) == body.username.s

\* the username the handler works with (line 148)
RequestUsername(body) == Lower(body.username.s)

\* User.query.filter_by(username=...).first(): lowest id, 0 for None
FirstByUsername(rows, username) ==
    LET m == {i \in DOMAIN rows : rows[i].username = username}
    IN IF m = {} THEN 0 ELSE CHOOSE i \in m : \A j \in m : i <= j

\* line 174
UsernameTaken(rows, username) == FirstByUsername(rows, username) # 0

\* lines 179-180
NewUser(body) == [username |-> RequestUsername(body),
                  password_hash |-> hash_password(body.password.s),
                  contact |-> body.contactLink.s]

\* some committed row has this name, case ignored
AlreadyRegistered(rows, body) ==
    \E i \in DOMAIN rows : Lower(rows[i].username) = Lower(body.username.s)

IdleReg == [pc |-> "idle", body |-> Body(None, None, None, None),
            resp |-> "none", known |-> FALSE, id |-> 0]

UsersStarted == (nextUserId - 1)
                + Cardinality({w \in Workers : reg[w].pc \in {"lookup", "insert"}})

\* lines 148-171; known records whether the name was already registered
\* when the request arrived
RegBegin(w, bodies) ==
    /\ reg[w].pc = "idle"
    /\ UsersStarted < MaxUsers
    /\ \E body \in bodies :
          reg' = [reg EXCEPT ![w] =
              IF Validate(body) = "ok"
              THEN [pc |-> "lookup", body |-> body, resp |-> "none",
                    known |-> AlreadyRegistered(users, body),
                    id |-> 0]
              ELSE [pc |-> "idle", body |-> body, resp |-> Validate(body),
                    known |-> FALSE, id |-> 0]]
    /\ UNCHANGED <<now, users, nextUserId, tokens>>
    /\ UNCHANGED bookVars

\* lines 174-176: SELECT on the committed rows
RegLookup(w) ==
    /\ reg[w].pc = "lookup"
    /\ reg' = [reg EXCEPT ![w] =
          IF UsernameTaken(users, RequestUsername(reg[w].body))
          THEN [@ EXCEPT !.pc = "idle", !.resp = "username_taken"]
          ELSE [@ EXCEPT !.pc = "insert"]]
    /\ UNCHANGED <<now, users, nextUserId, tokens>>
    /\ UNCHANGED bookVars

\* lines 179-182, first half of commit(): INSERT INTO users
RegInsert(w) ==
    /\ reg[w].pc = "insert"
    /\ reg' = [reg EXCEPT ![w].pc = "commit", ![w].id = nextUserId]
    /\ nextUserId' = nextUserId + 1
    /\ UNCHANGED <<now, users, tokens>>
    /\ UNCHANGED bookVars

\* lines 182-185, second half of commit(): COMMIT, then the success answer
RegCommit(w) ==
    /\ reg[w].pc = "commit"
    /\ users' = (reg[w].id :> NewUser(reg[w].body)) @@ users
    /\ reg' = [reg EXCEPT ![w].pc = "idle", ![w].resp = "success"]
    /\ UNCHANGED <<now, nextUserId, tokens>>
    /\ UNCHANGED bookVars

----------------------------------------------------------------------------
(* Tokens and verify_password: api.py *)

\* generate_auth_token: signed {'id': self.id}, expiry stamped in the header
generate_auth_token(id, t) == [id |-> id, exp |-> t + TOKEN_EXPIRATION, sig |-> TRUE]

\* variant: the expiry stamp is not looked at
verify_auth_token_NoExpiry(cred, rows, t) ==
    IF cred.kind # "token" THEN 0
    ELSE IF ~cred.token.sig THEN 0
    ELSE IF cred.token.id \in DOMAIN rows THEN cred.token.id ELSE 0

\* verify_auth_token: the user id the token resolves to, 0 for None
verify_auth_token(cred, rows, t) ==
    IF cred.kind # "token" THEN 0          \* not a token at all: BadSignature
    ELSE IF ~cred.token.sig THEN 0         \* BadSignature
    ELSE IF cred.token.exp < t THEN 0      \* SignatureExpired
    ELSE IF cred.token.id \in DOMAIN rows THEN cred.token.id ELSE 0

\* HTTP Basic "username" field: a token or a user name
TokenCred(tok) == [kind |-> "token", token |-> tok, name |-> <<>>]
NameCred(name) == [kind |-> "name", token |-> generate_auth_token(0, 0), name |-> name]

\* a token string is never a stored user name
CredName(cred) == IF cred.kind = "name" THEN cred.name ELSE <<"t", "o", "k">>

\* verify_password: ok, and g.user (0 when not set)
verify_password(cred, password, rows, t) ==
    LET byToken == verify_auth_token(cred, rows, t)
    IN IF byToken # 0 THEN [ok |-> TRUE, user |-> byToken]
       ELSE LET user == FirstByUsername(rows, CredName(cred))
            IN IF user = 0 \/ ~PasswordMatches(password, rows[user].password_hash)
               THEN [ok |-> FALSE, user |-> 0]
               ELSE [ok |-> TRUE, user |-> user]

Forged(tok) == [tok EXCEPT !.sig = FALSE]

\* credentials tried: handed-out tokens, the same with a broken signature, a
\* signed token naming a user id that has no row, and user names
Credentials ==
    {TokenCred(tok) : tok \in tokens}
    \cup {TokenCred(Forged(tok)) : tok \in tokens}
    \cup {TokenCred(generate_auth_token(nextUserId, now))}
    \cup {NameCred(n) : n \in {Abcd, ABcd, Dcba}}

PasswordInputs == {Secret, Hunter, <<>>}

\* GET /user/login: login_required runs verify_password, then a token is
\* made for g.user
Login ==
    /\ Cardinality(tokens) < MaxTokens
    /\ \E cred \in Credentials, password \in PasswordInputs :
          LET r == verify_password(cred, password, users, now)
          IN /\ r.ok
             /\ tokens' = tokens \cup {generate_auth_token(r.user, now)}
    /\ UNCHANGED <<now, users, nextUserId, reg>>
    /\ UNCHANGED bookVars

\* the clock is watched at the instants a token's life ends
ClockStep == TOKEN_EXPIRATION

TickClock ==
    /\ now < MaxTicks * ClockStep
    /\ now' = now + ClockStep
    /\ UNCHANGED authVars
    /\ UNCHANGED bookVars

----------------------------------------------------------------------------
InitAuth ==
    /\ users = <<>>
    /\ nextUserId = 1
    /\ reg = [w \in Workers |-> IdleReg]
    /\ tokens = {}

InitBooks ==
    /\ textbooks = <<>>
    /\ auctions = <<>>
    /\ nextTextbookId = 1
    /\ nextAuctionId = 1
    /\ book = [w \in Workers |-> IdleBook]

Init == now = 0 /\ InitBooks /\ InitAuth

BookNext ==
    \/ \E w \in Workers : AddBookBegin(w)
    \/ \E w \in Workers : FlushAuction(w)
    \/ \E w \in Workers : FlushBook(w)
    \/ \E w \in Workers : CommitBook(w)
    \/ Search
    \/ TickDay

\* the listing and search side
BookSpec == Init /\ [][BookNext]_vars

RegNext ==
    \/ \E w \in Workers : RegBegin(w, RegRequests)
    \/ \E w \in Workers : RegLookup(w)
    \/ \E w \in Workers : RegInsert(w)
    \/ \E w \in Workers : RegCommit(w)

\* registration, with every kind of request body
RegSpec == Init /\ [][RegNext]_vars

AuthNext ==
    \/ \E w \in Workers : RegBegin(w, ValidRequests)
    \/ \E w \in Workers : RegLookup(w)
    \/ \E w \in Workers : RegInsert(w)
    \/ \E w \in Workers : RegCommit(w)
    \/ Login
    \/ TickClock

\* registration, login and credential checks over time
AuthSpec == Init /\ [][AuthNext]_vars

----------------------------------------------------------------------------
(* Properties *)

Today == getCurrentESTDate

\* the auction row a textbook row points at
AuctionOf(t) == textbooks[t].auction

ResultSet(r) == {r.results[i] : i \in 1..Len(r.results)}
FirstSet(r) == {r.first[i] : i \in 1..Len(r.first)}

KeywordIn(title, keyword) == Contains(Lower(title), Lower(keyword))

MatchesAll(t, q) ==
    \A i \in 1..Len(Split(q)) : KeywordIn(textbooks[t].title, Split(q)[i])

\* C1: a search returns an id only if the title contains every keyword of the
\* query as a case-insensitive substring; if some keyword is in no title the
\* result is empty; and every textbook that contains all keywords and whose
\* auction is open after the lifecycle check is returned.
C1_SearchIsConjunctiveSubstring ==
    \A q \in Queries :
        LET r == SearchNow(q)
        IN /\ \A t \in ResultSet(r) : MatchesAll(t, q)
           /\ (\E i \in 1..Len(Split(q)) :
                 \A t \in DOMAIN textbooks : ~KeywordIn(textbooks[t].title, Split(q)[i]))
              => r.results = <<>>
           /\ \A t \in DOMAIN textbooks :
                 (MatchesAll(t, q) /\ r.auctions[AuctionOf(t)].isCurrent)
                 => t \in ResultSet(r)

\* C2: every id a search returns belongs to a textbook whose own auction
\* (the row Textbook.auction points at) is current when the search returns.
C2_ReturnedAuctionsAreCurrent ==
    \A q \in Queries :
        LET r == SearchNow(q)
        IN \A t \in ResultSet(r) : r.auctions[AuctionOf(t)].isCurrent

\* C3: a textbook among the first keyword's matches whose auction closed
\* before today has, after the search, a non-current auction and is not in
\* the result.
C3_ExpiredFirstMatchIsClosed ==
    \A q \in Queries :
        LET r == SearchNow(q)
        IN \A t \in FirstSet(r) :
              auctions[AuctionOf(t)].closingDate < Today
              => /\ ~r.auctions[AuctionOf(t)].isCurrent
                 /\ t \notin ResultSet(r)

\* C9: a search changes nothing but isCurrent, from true to false, and only
\* in the auctions of textbooks among the first keyword's matches; the
\* auction of every other textbook keeps all its fields.
C9_SearchFrame ==
    \A q \in Queries :
        LET r == SearchNow(q)
        IN /\ DOMAIN r.auctions = DOMAIN auctions
           /\ \A a \in DOMAIN auctions :
                 r.auctions[a] # auctions[a]
                 => /\ r.auctions[a] = [auctions[a] EXCEPT !.isCurrent = FALSE]
                    /\ auctions[a].isCurrent
           /\ \A t \in DOMAIN textbooks :
                 t \notin FirstSet(r)
                 => r.auctions[AuctionOf(t)] = auctions[AuctionOf(t)]

\* C6: committed textbooks and auctions reference each other one to one:
\* each textbook's auction exists and points back, each auction's textbook
\* exists and points back, and no two textbooks share an auction.
C6_MutualOneToOne ==
    /\ \A t \in DOMAIN textbooks :
          /\ AuctionOf(t) \in DOMAIN auctions
          /\ auctions[AuctionOf(t)].textbook = t
    /\ \A a \in DOMAIN auctions :
          /\ auctions[a].textbook \in DOMAIN textbooks
          /\ textbooks[auctions[a].textbook].auction = a
    /\ \A t1, t2 \in DOMAIN textbooks : t1 # t2 => AuctionOf(t1) # AuctionOf(t2)

\* two committed pairs whose generated ids crossed
C6_Witness ==
    /\ Cardinality(DOMAIN textbooks) = 2
    /\ \E t \in DOMAIN textbooks : AuctionOf(t) # t

\* C8: the lifecycle check closes an auction exactly when today is strictly
\* after its closing date and otherwise changes nothing; a second check on
\* the same day changes nothing; a closed auction is never reopened, neither
\* by the check nor by a whole search.
C8_LifecycleCheck ==
    /\ \A a \in DOMAIN auctions :
          LET post == checkAndModifyAuctionIsCurrent(auctions, a, Today)
          IN /\ (Today > auctions[a].closingDate)
                => post = [auctions EXCEPT ![a].isCurrent = FALSE]
             /\ ~(Today > auctions[a].closingDate) => post = auctions
             /\ checkAndModifyAuctionIsCurrent(post, a, Today) = post
             /\ ~auctions[a].isCurrent => ~post[a].isCurrent
    /\ \A q \in Queries : \A a \in DOMAIN auctions :
          ~auctions[a].isCurrent => ~SearchNow(q).auctions[a].isCurrent

\* one auction closed by a check, another checked on its closing day and
\* left open
C8_Witness ==
    \E a, b \in DOMAIN auctions :
        /\ ~auctions[a].isCurrent
        /\ auctions[b].isCurrent
        /\ auctions[b].closingDate = Today

RegDone(w) == reg[w].pc = "idle" /\ reg[w].resp # "none"

\* C4: a valid registration arriving when its lower-cased name is already
\* registered is answered username_taken and inserts no row.
C4_SecondRegistrationRejected ==
    \A w \in Workers :
        reg[w].known
        => /\ reg[w].id = 0
           /\ reg[w].pc \in {"idle", "lookup"}
           /\ RegDone(w) => reg[w].resp = "username_taken"

\* a case variant of a registered name was turned away
C4_Witness ==
    \E w \in Workers :
        /\ RegDone(w)
        /\ reg[w].known
        /\ reg[w].resp = "username_taken"
        /\ reg[w].body.username.s # RequestUsername(reg[w].body)

MissingField(body) ==
    \/ body.username.isNone
    \/ body.password.isNone
    \/ body.passwordCheck.isNone
    \/ body.contactLink.isNone

\* C7: a registration with any of the four fields absent is answered
\* missing_arguments and inserts no row.
C7_MissingFieldAnswered ==
    \A w \in Workers :
        (RegDone(w) /\ MissingField(reg[w].body))
        => reg[w].resp = "missing_arguments" /\ reg[w].id = 0

\* C10: no two user rows share a username and every stored username is
\* lower case.
C10_UsernamesUnique ==
    /\ \A i, j \in DOMAIN users : i # j => users[i].username # users[j].username
    /\ \A i \in DOMAIN users : users[i].username = Lower(users[i].username)

TokenGood(cred) ==
    /\ cred.kind = "token"
    /\ cred.token.sig
    /\ ~(cred.token.exp < now)
    /\ cred.token.id \in DOMAIN users

NameGood(cred, password) ==
    /\ cred.kind = "name"
    /\ \E i \in DOMAIN users :
          /\ users[i].username = cred.name
          /\ \A j \in DOMAIN users : users[j].username = cred.name => i <= j
          /\ users[i].password_hash = hash_password(password)

====
